---- MODULE Spec2Model ----
(***************************************************************************)
(* Model of the interflop cancellation backend (interflop_cancellation.c,  *)
(* legacy and extended variants): cancellation detection on add/sub, noise *)
(* synthesis from the per-thread random stream, the RNG state lifecycle    *)
(* (lazy seeding, push_seed/pop_seed) and the configuration entry points.  *)
(***************************************************************************)
EXTENDS Integers, FiniteSets, Sequences, TLC

(***************************************************************************)
(* IEEE-754 binary floating point.  A value is [k, s, b]: k is "fin",      *)
(* "inf" or "nan", s the sign bit, and b the set of the positions of the   *)
(* one bits of the magnitude (position i weighs 2^i), so 1.0 is {0} and    *)
(* 1 - 2^-52 is {-1, ..., -52}.  Arithmetic on the sets is exact; Round    *)
(* rounds to nearest, ties to even, in the format of the operation.        *)
(***************************************************************************)
binary32 == [p |-> 24, ebits |-> 8, bias |-> 127]
binary64 == [p |-> 53, ebits |-> 11, bias |-> 1023]

EMin(fmt) == 1 - fmt.bias
EMax(fmt) == fmt.bias
RECURSIVE Pow2(_)
Pow2(n) == IF n = 0 THEN 1 ELSE 2 * Pow2(n - 1)

MinOf(S) == CHOOSE x \in S : \A y \in S : x <= y
MaxOf(S) == 0 - MinOf({0 - i : i \in S})
Shift(B, n) == {i + n : i \in B}
SymDiff(A, B) == (A \ B) \cup (B \ A)

\* A + B by carry-save steps: the sum without carries, plus the carries
RECURSIVE CarryAdd(_, _)
CarryAdd(A, B) == IF B = {} THEN A ELSE CarryAdd(SymDiff(A, B), Shift(A \cap B, 1))

\* A - B (A >= B) by borrow-save steps
RECURSIVE BorrowSub(_, _)
BorrowSub(A, B) == IF B = {} THEN A ELSE BorrowSub(SymDiff(A, B), Shift(B \ A, 1))

\* A + 2^j: the carry runs up to the first zero bit k of A at or above j
AddBit(A, j) ==
  LET k == MinOf({i \in j .. (MaxOf(A \cup {j}) + 1) : i \notin A})
  IN {i \in A : i < j \/ i > k} \cup {k}

\* A + B; operands that do not overlap are merged
AddBits(A, B) ==
  IF A = {} THEN B
  ELSE IF B = {} THEN A
  ELSE IF MaxOf(B) < MinOf(A) \/ MaxOf(A) < MinOf(B) THEN A \cup B
  ELSE IF MinOf(B) = MaxOf(B) THEN AddBit(A, MinOf(B))
  ELSE IF MinOf(A) = MaxOf(A) THEN AddBit(B, MinOf(A))
  ELSE CarryAdd(A, B)

\* A - B for magnitudes with A >= B; when B lies wholly below the lowest bit
\* m of A, 2^m - B is B with the bits above its lowest one flipped
SubBits(A, B) ==
  IF B = {} THEN A
  ELSE IF MaxOf(B) < MinOf(A)
       THEN LET m == MinOf(A)
                j == MinOf(B)
            IN (A \ {m}) \cup {j} \cup {i \in (j + 1) .. (m - 1) : i \notin B}
  ELSE BorrowSub(A, B)

GeMag(A, B) == A = B \/ MaxOf(SymDiff(A, B)) \in A

Fin(s, B) == [k |-> "fin", s |-> s, b |-> B]
Inf(s) == [k |-> "inf", s |-> s, b |-> {}]
NaN == [k |-> "nan", s |-> 0, b |-> {}]
Neg(x) == IF x.k = "nan" THEN x ELSE [x EXCEPT !.s = 1 - x.s]

\* round the exact magnitude B to the precision and range of fmt
Round(fmt, s, B) ==
  IF B = {} THEN Fin(s, {})
  ELSE LET top == MaxOf(B)
           lsb == IF top - fmt.p + 1 > EMin(fmt) - fmt.p + 1
                  THEN top - fmt.p + 1 ELSE EMin(fmt) - fmt.p + 1
           keep == {i \in B : i >= lsb}
           rest == {i \in B : i < lsb}
           up == (lsb - 1) \in rest /\ (rest # {lsb - 1} \/ lsb \in keep)
           r == IF up THEN AddBits(keep, {lsb}) ELSE keep
       IN IF r # {} /\ MaxOf(r) > EMax(fmt) THEN Inf(s) ELSE Fin(s, r)

\* a + b
FAdd(fmt, x, y) ==
  IF x.k = "nan" \/ y.k = "nan" THEN NaN
  ELSE IF x.k = "inf" /\ y.k = "inf" THEN (IF x.s = y.s THEN x ELSE NaN)
  ELSE IF x.k = "inf" THEN x
  ELSE IF y.k = "inf" THEN y
  ELSE IF x.s = y.s THEN Round(fmt, x.s, AddBits(x.b, y.b))
  ELSE IF x.b = y.b THEN Fin(0, {})
  ELSE IF GeMag(x.b, y.b) THEN Round(fmt, x.s, SubBits(x.b, y.b))
  ELSE Round(fmt, y.s, SubBits(y.b, x.b))

\* a - b
FSub(fmt, x, y) == FAdd(fmt, x, Neg(y))

\* A * B: the sum of the copies of A shifted to the bits of B, B split in halves
RECURSIVE MulBits(_, _)
MulBits(A, B) ==
  IF B = {} THEN {}
  ELSE IF MinOf(B) = MaxOf(B) THEN Shift(A, MinOf(B))
  ELSE LET mid == (MinOf(B) + MaxOf(B)) \div 2
           low == {i \in B : i <= mid}
       IN AddBits(MulBits(A, low), MulBits(A, B \ low))

SignXor(x, y) == IF x.s = y.s THEN 0 ELSE 1

\* a * b
FMul(fmt, x, y) ==
  IF x.k = "nan" \/ y.k = "nan" THEN NaN
  ELSE IF x.k = "inf" \/ y.k = "inf"
       THEN (IF (x.k = "fin" /\ x.b = {}) \/ (y.k = "fin" /\ y.b = {})
             THEN NaN ELSE Inf(SignXor(x, y)))
  ELSE Round(fmt, SignXor(x, y), MulBits(x.b, y.b))

\* one step of long division: the quotient bit at position k and the remainder
DivStep(R, D, k) ==
  IF GeMag(R, Shift(D, k))
  THEN [q |-> {k}, r |-> SubBits(R, Shift(D, k))]
  ELSE [q |-> {}, r |-> R]

\* the steps at positions hi down to lo, the upper half of them first
RECURSIVE DivRange(_, _, _, _)
DivRange(R, D, hi, lo) ==
  IF hi = lo THEN DivStep(R, D, hi)
  ELSE LET mid == (hi + lo) \div 2
           top == DivRange(R, D, hi, mid + 1)
           bot == DivRange(top.r, D, mid, lo)
       IN [q |-> top.q \cup bot.q, r |-> bot.r]

\* long division: quotient bits from position k down to position low, then a
\* sticky bit below them when the remainder is not zero
DivBits(R, D, k, low) ==
  LET d == DivRange(R, D, k, low)
  IN d.q \cup (IF d.r = {} THEN {} ELSE {low - 2})

\* a / b
FDiv(fmt, x, y) ==
  IF x.k = "nan" \/ y.k = "nan" THEN NaN
  ELSE IF x.k = "inf" THEN (IF y.k = "inf" THEN NaN ELSE Inf(SignXor(x, y)))
  ELSE IF y.k = "inf" THEN Fin(SignXor(x, y), {})
  ELSE IF y.b = {} THEN (IF x.b = {} THEN NaN ELSE Inf(SignXor(x, y)))
  ELSE IF x.b = {} THEN Fin(SignXor(x, y), {})
  ELSE LET q0 == MaxOf(x.b) - MaxOf(y.b)
       IN Round(fmt, SignXor(x, y), DivBits(x.b, y.b, q0, q0 - fmt.p - 2))

\* the raw (biased) exponent field of x in fmt
ExpField(fmt, x) ==
  IF x.k # "fin" THEN Pow2(fmt.ebits) - 1
  ELSE IF x.b = {} \/ MaxOf(x.b) < EMin(fmt) THEN 0
  ELSE MaxOf(x.b) + fmt.bias

\* the exponent of x: the raw exponent field minus the bias
GET_EXP_FLT(fmt, x) == ExpField(fmt, x) - fmt.bias

\* the sign, exponent and mantissa fields of x in fmt; mantissa bit i weighs
\* 2^(i - (p - 1)) relative to the leading bit
Fields(fmt, x) ==
  IF x.k = "inf" THEN [sign |-> x.s, exponent |-> Pow2(fmt.ebits) - 1, mantissa |-> {}]
  ELSE IF x.k = "nan"
       THEN [sign |-> x.s, exponent |-> Pow2(fmt.ebits) - 1, mantissa |-> {fmt.p - 2}]
  ELSE IF x.b = {} \/ MaxOf(x.b) < EMin(fmt)
       THEN [sign |-> x.s, exponent |-> 0,
             mantissa |-> Shift(x.b, (fmt.p - 1) - EMin(fmt))]
  ELSE LET top == MaxOf(x.b)
       IN [sign |-> x.s, exponent |-> top + fmt.bias,
           mantissa |-> Shift(x.b \ {top}, (fmt.p - 1) - top)]

\* the value whose fields in fmt are f
Value(fmt, f) ==
  IF f.exponent = Pow2(fmt.ebits) - 1
  THEN (IF f.mantissa = {} THEN Inf(f.sign) ELSE NaN)
  ELSE IF f.exponent = 0
       THEN Fin(f.sign, Shift(f.mantissa, EMin(fmt) - (fmt.p - 1)))
  ELSE LET e == f.exponent - fmt.bias
       IN Fin(f.sign, {e} \cup Shift(f.mantissa, e - (fmt.p - 1)))

\* conversion of a value to fmt (the store of a double into a float, or no
\* change for a double)
Convert(fmt, x) == IF x.k # "fin" THEN x ELSE Round(fmt, x.s, x.b)

Zero == Fin(0, {})
Half == Fin(0, {-1})

(***************************************************************************)
(* The random stream (vfc_rng).  A stream is named by what seeded it: a    *)
(* fixed seed together with the value of the thread counter it was mixed   *)
(* with, or an entropy sample.  A draw is the pair of a stream and a       *)
(* position in it.                                                         *)
(***************************************************************************)
NoStream == [kind |-> "none", seed |-> 0, tid |-> 0]
FixedStream(seed, tid) == [kind |-> "fixed", seed |-> seed, tid |-> tid]
EntropyStream(e) == [kind |-> "entropy", seed |-> e, tid |-> 0]
NoDraw == [stream |-> NoStream, pos |-> 0]

\* the static (zero-initialised) rng_state_t
ZeroRng == [choose_seed |-> FALSE, seed |-> 0, random_state_valid |-> FALSE,
            stream |-> NoStream, pos |-> 0]

\* the doubles a stream yields: 0.25, 0.5, 0.75, 0.5 + 2^-53
DrawTable == << {-2}, {-1}, {-1, -2}, {-1, -53} >>

\* the double in [0,1) at position pos of a stream
Uniform01(stream, pos) ==
  Fin(0, DrawTable[((stream.seed + stream.tid + pos) % Len(DrawTable)) + 1])

\* records the seed policy in a stream state that is not seeded yet; a seeded
\* state is left alone
_init_rng_state_struct(st, choose_seed, seed, random_state_valid) ==
  IF st.random_state_valid THEN st
  ELSE [st EXCEPT !.choose_seed = choose_seed, !.seed = seed,
                  !.random_state_valid = random_state_valid]

\* one draw: seeds the stream first when it is not seeded (with the recorded
\* seed mixed with a new value of the thread counter, or from entropy)
get_rand_double01(st, tid, ent) ==
  LET newtid == IF ~st.random_state_valid /\ st.choose_seed THEN tid + 1 ELSE tid
      seeded == IF st.random_state_valid THEN st
                ELSE [st EXCEPT !.random_state_valid = TRUE,
                                !.stream = IF st.choose_seed
                                           THEN FixedStream(st.seed, newtid)
                                           ELSE EntropyStream(ent),
                                !.pos = 0]
  IN [rng |-> [seeded EXCEPT !.pos = @ + 1], tid |-> newtid,
      u |-> Uniform01(seeded.stream, seeded.pos),
      draw |-> [stream |-> seeded.stream, pos |-> seeded.pos]]

(***************************************************************************)
(* The context and its setters.                                            *)
(***************************************************************************)
init_context ==
  [choose_seed |-> FALSE, seed |-> 0, warning |-> FALSE, tolerance |-> 1]

_set_cancellation_tolerance(tolerance, ctx) == [ctx EXCEPT !.tolerance = tolerance]
_set_cancellation_warning(warning, ctx) == [ctx EXCEPT !.warning = warning]
_set_cancellation_seed(seed, ctx) == [ctx EXCEPT !.seed = seed, !.choose_seed = TRUE]

(***************************************************************************)
(* Noise synthesis and cancellation detection.                             *)
(***************************************************************************)
MaxInt(a, b) == IF a > b THEN a ELSE b

\* noise = rand * 2^(exp): the centered draw with exp added to its 11-bit
\* exponent field
_noise_binary64(exp, st, tid, ent) ==
  LET g == get_rand_double01(st, tid, ent)
      d_rand == FSub(binary64, g.u, Half)
      b64 == Fields(binary64, d_rand)
      f == [b64 EXCEPT !.exponent = (@ + exp) % Pow2(binary64.ebits)]
  IN [noise |-> Value(binary64, f), d_rand |-> d_rand, u |-> g.u,
      draw |-> g.draw, rng |-> g.rng, tid |-> g.tid]

\* what an operation hands back: the stored result, the stream state and the
\* thread counter after it, and what the cancellation step computed
Outcome(Z, plain, rng, tid) ==
  [Z |-> Z, plain |-> plain, rng |-> rng, tid |-> tid, injected |-> FALSE,
   cancellation |-> 0, e_z |-> 0, e_n |-> 0, warned |-> FALSE,
   u |-> Zero, d_rand |-> Zero, noise |-> Zero, draw |-> NoDraw]

\* a cancellation size that ignores the direction of the exponent change
cancellation_abs(fmt, X, Y, Z) ==
  LET d == MaxInt(GET_EXP_FLT(fmt, X), GET_EXP_FLT(fmt, Y)) - GET_EXP_FLT(fmt, Z)
  IN IF d < 0 THEN 0 - d ELSE d

\* the size of the cancellation: the larger of the operands' exponents minus
\* the exponent of the result
cancellation(fmt, X, Y, Z) ==
  MaxInt(GET_EXP_FLT(fmt, X), GET_EXP_FLT(fmt, Y)) - GET_EXP_FLT(fmt, Z)

\* a test that needs the cancellation to exceed the tolerance
detected_strict(c, CTX) == c > CTX.tolerance

\* the test that guards the injection
detected(c, CTX) == c >= CTX.tolerance

\* a noise exponent that is one too low
e_n_low(e_z, c) == e_z - c

\* the exponent of the noise
e_n(e_z, c) == e_z - (c - 1)

\* a stream set-up that never takes the seed of the context
cancell_init_unseeded(RNG_STATE, CTX) ==
  _init_rng_state_struct(RNG_STATE, FALSE, CTX.seed, FALSE)

\* the stream set-up before the draw: the seed policy of the context
\* an initialization step that leaves the recorded seed policy as it is
cancell_init_skip(RNG_STATE, CTX) == RNG_STATE
cancell_init(RNG_STATE, CTX) ==
  _init_rng_state_struct(RNG_STATE, CTX.choose_seed, CTX.seed, FALSE)

\* a cancell that runs the initialization step of the stream on every call,
\* cancellation detected or not
cancell_eager(fmt, X, Y, Z, CTX, RNG_STATE, tid, ent) ==
  LET e_z == GET_EXP_FLT(fmt, Z)
      c == cancellation(fmt, X, Y, Z)
      base == [Outcome(Z, Z, cancell_init(RNG_STATE, CTX), tid)
                 EXCEPT !.cancellation = c, !.e_z = e_z]
  IN IF detected(c, CTX)
     THEN LET n == _noise_binary64(e_n(e_z, c), cancell_init(RNG_STATE, CTX), tid, ent)
          IN [base EXCEPT !.Z = Convert(fmt, FAdd(binary64, Z, n.noise)),
                          !.rng = n.rng, !.tid = n.tid, !.injected = TRUE,
                          !.e_n = e_n(e_z, c), !.warned = CTX.warning, !.u = n.u,
                          !.d_rand = n.d_rand, !.noise = n.noise, !.draw = n.draw]
     ELSE base

cancell(fmt, X, Y, Z, CTX, RNG_STATE, tid, ent) ==
  LET e_z == GET_EXP_FLT(fmt, Z)
      c == cancellation(fmt, X, Y, Z)
      base == [Outcome(Z, Z, RNG_STATE, tid) EXCEPT !.cancellation = c, !.e_z = e_z]
  IN IF detected(c, CTX)
     THEN LET n == _noise_binary64(e_n(e_z, c), cancell_init(RNG_STATE, CTX), tid, ent)
          IN [base EXCEPT !.Z = Convert(fmt, FAdd(binary64, Z, n.noise)),
                          !.rng = n.rng, !.tid = n.tid, !.injected = TRUE,
                          !.e_n = e_n(e_z, c), !.warned = CTX.warning, !.u = n.u,
                          !.d_rand = n.d_rand, !.noise = n.noise, !.draw = n.draw]
     ELSE base

(***************************************************************************)
(* Arithmetic dispatch.                                                    *)
(***************************************************************************)
add_float(a, b, CTX, RNG_STATE, tid, ent) ==
  cancell(binary32, a, b, FAdd(binary32, a, b), CTX, RNG_STATE, tid, ent)
sub_float(a, b, CTX, RNG_STATE, tid, ent) ==
  cancell(binary32, a, b, FSub(binary32, a, b), CTX, RNG_STATE, tid, ent)
mul_float(a, b, CTX, RNG_STATE, tid, ent) ==
  Outcome(FMul(binary32, a, b), FMul(binary32, a, b), RNG_STATE, tid)
div_float(a, b, CTX, RNG_STATE, tid, ent) ==
  Outcome(FDiv(binary32, a, b), FDiv(binary32, a, b), RNG_STATE, tid)
add_double(a, b, CTX, RNG_STATE, tid, ent) ==
  cancell(binary64, a, b, FAdd(binary64, a, b), CTX, RNG_STATE, tid, ent)
sub_double(a, b, CTX, RNG_STATE, tid, ent) ==
  cancell(binary64, a, b, FSub(binary64, a, b), CTX, RNG_STATE, tid, ent)
\* a multiplication that runs the cancellation step of the additions
mul_double_cancell(a, b, CTX, RNG_STATE, tid, ent) ==
  cancell(binary64, a, b, FMul(binary64, a, b), CTX, RNG_STATE, tid, ent)
mul_double(a, b, CTX, RNG_STATE, tid, ent) ==
  Outcome(FMul(binary64, a, b), FMul(binary64, a, b), RNG_STATE, tid)
div_double(a, b, CTX, RNG_STATE, tid, ent) ==
  Outcome(FDiv(binary64, a, b), FDiv(binary64, a, b), RNG_STATE, tid)

\* the external fused multiply-add routine: a * b + c rounded once
fmaApprox(fmt, a, b, c) ==
  IF a.k = "fin" /\ b.k = "fin"
  THEN FAdd(fmt, Fin(SignXor(a, b), MulBits(a.b, b.b)), c)
  ELSE FAdd(fmt, FMul(fmt, a, b), c)

fma_float(a, b, c, CTX, RNG_STATE, tid, ent) ==
  Outcome(fmaApprox(binary32, a, b, c), fmaApprox(binary32, a, b, c), RNG_STATE, tid)
fma_double(a, b, c, CTX, RNG_STATE, tid, ent) ==
  Outcome(fmaApprox(binary64, a, b, c), fmaApprox(binary64, a, b, c), RNG_STATE, tid)

(***************************************************************************)
(* Option parsing.  An option is [key, val, error]: the key argp hands to  *)
(* parse_opt and what the host's string-to-integer conversion returned for *)
(* its argument (the value, and whether it reported an error).  A 64-bit   *)
(* seed is kept as the two's-complement reading of its bit pattern.        *)
(***************************************************************************)
Option(key, val, error) == [key |-> key, val |-> val, error |-> error]

\* parse_opt of the extended variant: the context after one option
parse_opt(opt, ctx) ==
  IF opt.key = "t"
  THEN (IF opt.error # 0 \/ opt.val < 0 THEN ctx
        ELSE _set_cancellation_tolerance(opt.val, ctx))
  ELSE IF opt.key = "w" THEN _set_cancellation_warning(TRUE, ctx)
  ELSE IF opt.key = "s" THEN _set_cancellation_seed(opt.val, ctx)
  ELSE ctx

\* parse_opt of the legacy variant
legacy_parse_opt(opt, ctx) ==
  IF opt.key = "t"
  THEN (IF opt.error # 0 \/ opt.val < 0 THEN ctx
        ELSE [ctx EXCEPT !.tolerance = opt.val])
  ELSE IF opt.key = "w" THEN [ctx EXCEPT !.warning = TRUE]
  ELSE IF opt.key = "s" THEN [ctx EXCEPT !.choose_seed = TRUE, !.seed = opt.val]
  ELSE ctx

\* the number of logger_error calls parse_opt makes for one option
parse_errors(opt) ==
  IF opt.key = "t" /\ (opt.error # 0 \/ opt.val < 0) THEN 1
  ELSE IF opt.key = "s" /\ opt.error # 0 THEN 1
  ELSE 0

\* argp_parse: parse_opt on every option of argv in turn
RECURSIVE interflop_argp_parse(_, _, _)
interflop_argp_parse(variant, argv, ctx) ==
  IF argv = << >> THEN ctx
  ELSE interflop_argp_parse(variant, Tail(argv),
         IF variant = "legacy" THEN legacy_parse_opt(Head(argv), ctx)
         ELSE parse_opt(Head(argv), ctx))

RECURSIVE argv_errors(_)
argv_errors(argv) ==
  IF argv = << >> THEN 0 ELSE parse_errors(Head(argv)) + argv_errors(Tail(argv))

\* a configure that takes choose_seed from conf
configure_as_given(conf, ctx) ==
  [_set_cancellation_seed(conf.seed,
     _set_cancellation_warning(conf.warning,
       _set_cancellation_tolerance(conf.tolerance, ctx)))
   EXCEPT !.choose_seed = conf.choose_seed]

\* interflop_cancellation_configure: the context after a bulk configuration
configure(conf, ctx) ==
  _set_cancellation_seed(conf.seed,
    _set_cancellation_warning(conf.warning,
      _set_cancellation_tolerance(conf.tolerance, ctx)))

(***************************************************************************)
(* Bounds of the model.                                                    *)
(***************************************************************************)
NThreads == 2
MaxDraws == 2
MaxTid == 2
NEntropy == 2
MaxSeed == 2

Threads == 1 .. NThreads
Slots == 0 .. NThreads
Entropy == 1 .. NEntropy
Seeds == 1 .. MaxSeed

(***************************************************************************)
(* State.                                                                  *)
(***************************************************************************)
VARIABLES
  build,        \* the variant compiled and whether RNG_THREAD_SAFE is defined
  phase,        \* "boot" before pre_init, "ready" after it
  ctx,          \* the cancellation_context_t pre_init allocated
  rng_state,    \* the live stream state, per storage slot
  __rng_state,  \* the saved copy, per storage slot
  global_tid,   \* the process-wide thread counter
  last,         \* the call that was made last and what it produced
  pushed,       \* history: per thread, the push_seed in effect and the draws since
  runB          \* a second run of the program, for comparing two runs

vars == <<build, phase, ctx, rng_state, __rng_state, global_tid, last, pushed, runB>>

\* where thread t's TLS objects live: one slot per thread when TLS is
\* __thread, the single static object (slot 0) when TLS is empty
Slot(t) == IF build.RNG_THREAD_SAFE THEN t ELSE 0

NoContext == [choose_seed |-> FALSE, seed |-> 0, warning |-> FALSE, tolerance |-> 0]
NoOutcome == Outcome(Zero, Zero, ZeroRng, 0)

Call(op, t, a, b, c, out, argv, errors) ==
  [op |-> op, thread |-> t, a |-> a, b |-> b, c |-> c, out |-> out,
   argv |-> argv, errors |-> errors]
Config(op, argv, errors) == Call(op, 0, Zero, Zero, Zero, NoOutcome, argv, errors)
Rng(op, t) == Call(op, t, Zero, Zero, Zero, NoOutcome, << >>, 0)

\* history: the draw the next injected add/sub of a thread would make
NextDraw(st, CTX, tid) ==
  IF st.random_state_valid THEN [stream |-> st.stream, pos |-> st.pos]
  ELSE IF CTX.choose_seed THEN [stream |-> FixedStream(CTX.seed, tid + 1), pos |-> 0]
  ELSE [stream |-> EntropyStream(0), pos |-> 0]

NoPush == [active |-> FALSE, popped |-> FALSE, seed |-> 0, draws |-> 0,
           expect |-> NoDraw, ctx |-> NoContext]

RunB0 == [phase |-> "boot", ctx |-> NoContext, rng |-> ZeroRng, saved |-> ZeroRng,
          tid |-> 0, out |-> NoOutcome]

Init ==
  /\ build \in {[variant |-> "legacy", RNG_THREAD_SAFE |-> TRUE],
                [variant |-> "extended", RNG_THREAD_SAFE |-> TRUE],
                [variant |-> "extended", RNG_THREAD_SAFE |-> FALSE]}
  /\ phase = "boot"
  /\ ctx = NoContext
  /\ rng_state = [s \in Slots |-> ZeroRng]
  /\ __rng_state = [s \in Slots |-> ZeroRng]
  /\ global_tid = 0
  /\ last = Config("none", << >>, 0)
  /\ pushed = [t \in Threads |-> NoPush]
  /\ runB = RunB0

(***************************************************************************)
(* Actions: one per entry point.                                           *)
(***************************************************************************)
interflop_cancellation_pre_init ==
  /\ phase = "boot"
  /\ phase' = "ready"
  /\ ctx' = init_context
  /\ last' = Config("pre_init", << >>, 0)
  /\ UNCHANGED <<build, rng_state, __rng_state, global_tid, pushed>>

interflop_cancellation_CLI(argv) ==
  /\ phase = "ready"
  /\ ctx' = interflop_argp_parse(build.variant, argv, ctx)
  /\ last' = Config("CLI", argv, argv_errors(argv))
  /\ UNCHANGED <<build, phase, rng_state, __rng_state, global_tid, pushed>>

interflop_cancellation_configure(conf) ==
  /\ phase = "ready"
  /\ build.variant = "extended"
  /\ ctx' = configure(conf, ctx)
  /\ last' = Config("configure", <<conf>>, 0)
  /\ UNCHANGED <<build, phase, rng_state, __rng_state, global_tid, pushed>>

interflop_cancellation_init(t) ==
  /\ phase = "ready"
  /\ rng_state' = [rng_state EXCEPT ![Slot(t)] =
                     _init_rng_state_struct(@, ctx.choose_seed, ctx.seed, FALSE)]
  /\ last' = Rng("init", t)
  /\ UNCHANGED <<build, phase, ctx, __rng_state, global_tid, pushed>>

\* a push_seed that saves the live state only while the slot is empty
cancellation_push_seed_once(t, seed) ==
  /\ phase = "ready"
  /\ build.variant = "extended"
  /\ __rng_state' = [__rng_state EXCEPT ![Slot(t)] =
                       IF @ = ZeroRng THEN rng_state[Slot(t)] ELSE @]
  /\ rng_state' = [rng_state EXCEPT ![Slot(t)] =
                     _init_rng_state_struct(@, TRUE, seed, FALSE)]
  /\ last' = Rng("push_seed", t)
  /\ pushed' = [pushed EXCEPT ![t] =
                  [active |-> TRUE, popped |-> FALSE, seed |-> seed, draws |-> 0,
                   expect |-> NextDraw(rng_state[Slot(t)], ctx, global_tid),
                   ctx |-> ctx]]
  /\ UNCHANGED <<build, phase, ctx, global_tid>>

cancellation_push_seed(t, seed) ==
  /\ phase = "ready"
  /\ build.variant = "extended"
  /\ __rng_state' = [__rng_state EXCEPT ![Slot(t)] = rng_state[Slot(t)]]
  /\ rng_state' = [rng_state EXCEPT ![Slot(t)] =
                     _init_rng_state_struct(@, TRUE, seed, FALSE)]
  /\ last' = Rng("push_seed", t)
  /\ pushed' = [pushed EXCEPT ![t] =
                  [active |-> TRUE, popped |-> FALSE, seed |-> seed, draws |-> 0,
                   expect |-> NextDraw(rng_state[Slot(t)], ctx, global_tid),
                   ctx |-> ctx]]
  /\ UNCHANGED <<build, phase, ctx, global_tid>>

cancellation_pop_seed(t) ==
  /\ phase = "ready"
  /\ build.variant = "extended"
  /\ rng_state' = [rng_state EXCEPT ![Slot(t)] = __rng_state[Slot(t)]]
  /\ last' = Rng("pop_seed", t)
  /\ pushed' = [pushed EXCEPT ![t].active = FALSE, ![t].popped = pushed[t].active]
  /\ UNCHANGED <<build, phase, ctx, __rng_state, global_tid>>

\* an arithmetic entry point called by thread t: out is what it computes
\* from the operands, the context and the thread's stream state
Arith(op, t, a, b, c, out) ==
  /\ phase = "ready"
  /\ out.rng.pos <= MaxDraws
  /\ out.tid <= MaxTid
  /\ (out.injected /\ pushed[t].active) => pushed[t].draws < MaxDraws
  /\ rng_state' = [rng_state EXCEPT ![Slot(t)] = out.rng]
  /\ global_tid' = out.tid
  /\ last' = Call(op, t, a, b, c, out, << >>, 0)
  /\ pushed' = [pushed EXCEPT ![t].draws =
                  IF out.injected /\ pushed[t].active THEN @ + 1 ELSE @]
  /\ UNCHANGED <<build, phase, ctx, __rng_state>>

interflop_cancellation_add_float(t, a, b, ent) ==
  Arith("add_float", t, a, b, Zero,
        add_float(a, b, ctx, rng_state[Slot(t)], global_tid, ent))
interflop_cancellation_sub_float(t, a, b, ent) ==
  Arith("sub_float", t, a, b, Zero,
        sub_float(a, b, ctx, rng_state[Slot(t)], global_tid, ent))
interflop_cancellation_mul_float(t, a, b, ent) ==
  Arith("mul_float", t, a, b, Zero,
        mul_float(a, b, ctx, rng_state[Slot(t)], global_tid, ent))
interflop_cancellation_div_float(t, a, b, ent) ==
  Arith("div_float", t, a, b, Zero,
        div_float(a, b, ctx, rng_state[Slot(t)], global_tid, ent))
interflop_cancellation_add_double(t, a, b, ent) ==
  Arith("add_double", t, a, b, Zero,
        add_double(a, b, ctx, rng_state[Slot(t)], global_tid, ent))
interflop_cancellation_sub_double(t, a, b, ent) ==
  Arith("sub_double", t, a, b, Zero,
        sub_double(a, b, ctx, rng_state[Slot(t)], global_tid, ent))
interflop_cancellation_mul_double(t, a, b, ent) ==
  Arith("mul_double", t, a, b, Zero,
        mul_double(a, b, ctx, rng_state[Slot(t)], global_tid, ent))
interflop_cancellation_div_double(t, a, b, ent) ==
  Arith("div_double", t, a, b, Zero,
        div_double(a, b, ctx, rng_state[Slot(t)], global_tid, ent))
interflop_cancellation_fma_float(t, a, b, c, ent) ==
  /\ build.variant = "extended"
  /\ Arith("fma_float", t, a, b, c,
           fma_float(a, b, c, ctx, rng_state[Slot(t)], global_tid, ent))
interflop_cancellation_fma_double(t, a, b, c, ent) ==
  /\ build.variant = "extended"
  /\ Arith("fma_double", t, a, b, c,
           fma_double(a, b, c, ctx, rng_state[Slot(t)], global_tid, ent))

(***************************************************************************)
(* Inputs.                                                                 *)
(***************************************************************************)
One == Fin(0, {0})
Two == Fin(0, {1})
Three == Fin(0, {0, 1})
Five == Fin(0, {0, 2})
AlmostOne64 == Fin(0, {0 - i : i \in 1 .. 52})   \* 1 - 2^-52
AlmostOne32 == Fin(0, {0 - i : i \in 1 .. 24})   \* 1 - 2^-24

\* operand pairs of the additions and subtractions: a cancellation of 52
\* bits, a sum whose exponent grows, equal operands, a difference that keeps
\* the exponent
DoublePairs ==
  {<<One, Neg(AlmostOne64)>>, <<Two, Three>>, <<One, One>>, <<Three, One>>}
FloatPairs == {<<One, Neg(AlmostOne32)>>, <<One, One>>, <<Three, One>>}
\* operand pairs of the multiplications and divisions: exact, inexact, a
\* zero divisor, a full mantissa
DoubleFactors ==
  {<<Three, Neg(Five)>>, <<One, Three>>, <<Three, Zero>>, <<AlmostOne64, Three>>}
FloatFactors == {<<Three, Neg(Five)>>, <<One, Three>>, <<Zero, Zero>>}
FmaTriples == {<<Three, Five, Neg(One)>>, <<One, Three, Neg(Three)>>}

\* the command lines of the arithmetic specification: one option each
ArithArgv ==
  {<<Option("t", 0, 0)>>, <<Option("t", 60, 0)>>, <<Option("s", 1, 0)>>}

(***************************************************************************)
(* Spec: one thread configures the backend and calls the arithmetic entry  *)
(* points.                                                                 *)
(***************************************************************************)
\* the entropy samples that matter to thread t's next draw: the sample is
\* read only when the draw seeds a stream with no chosen seed
EntropyOf(t) ==
  IF rng_state[Slot(t)].random_state_valid \/ ctx.choose_seed THEN {1} ELSE Entropy

Next ==
  \/ interflop_cancellation_pre_init /\ UNCHANGED runB
  \/ \E argv \in ArithArgv : interflop_cancellation_CLI(argv) /\ UNCHANGED runB
  \/ interflop_cancellation_init(1) /\ UNCHANGED runB
  \/ \E p \in FloatPairs, ent \in EntropyOf(1) :
       interflop_cancellation_add_float(1, p[1], p[2], ent) /\ UNCHANGED runB
  \/ \E p \in FloatPairs, ent \in EntropyOf(1) :
       interflop_cancellation_sub_float(1, p[1], p[2], ent) /\ UNCHANGED runB
  \/ \E p \in DoublePairs, ent \in EntropyOf(1) :
       interflop_cancellation_add_double(1, p[1], p[2], ent) /\ UNCHANGED runB
  \/ \E p \in DoublePairs, ent \in EntropyOf(1) :
       interflop_cancellation_sub_double(1, p[1], p[2], ent) /\ UNCHANGED runB
  \/ \E p \in FloatFactors :
       interflop_cancellation_mul_float(1, p[1], p[2], 1) /\ UNCHANGED runB
  \/ \E p \in FloatFactors :
       interflop_cancellation_div_float(1, p[1], p[2], 1) /\ UNCHANGED runB
  \/ \E p \in DoubleFactors :
       interflop_cancellation_mul_double(1, p[1], p[2], 1) /\ UNCHANGED runB
  \/ \E p \in DoubleFactors :
       interflop_cancellation_div_double(1, p[1], p[2], 1) /\ UNCHANGED runB
  \/ \E p \in FmaTriples :
       interflop_cancellation_fma_float(1, p[1], p[2], p[3], 1) /\ UNCHANGED runB
  \/ \E p \in FmaTriples :
       interflop_cancellation_fma_double(1, p[1], p[2], p[3], 1) /\ UNCHANGED runB

Spec == Init /\ [][Next]_vars

(***************************************************************************)
(* Properties of the arithmetic entry points.  They read the call recorded *)
(* in last: its operands, the plain result, the stored result and what the *)
(* cancellation step did.                                                  *)
(***************************************************************************)
AddSubOps == {"add_float", "sub_float", "add_double", "sub_double"}
PassOps == {"mul_float", "div_float", "mul_double", "div_double",
            "fma_float", "fma_double"}
FloatOps == {"add_float", "sub_float", "mul_float", "div_float", "fma_float"}
FmtOf(op) == IF op \in FloatOps THEN binary32 ELSE binary64

\* the exponent of x read from its raw exponent field
RawExp(fmt, x) == Fields(fmt, x).exponent - fmt.bias

\* the plain IEEE result of a call
PlainOf(call) ==
  LET fmt == FmtOf(call.op)
  IN IF call.op \in {"add_float", "add_double"} THEN FAdd(fmt, call.a, call.b)
     ELSE IF call.op \in {"sub_float", "sub_double"} THEN FSub(fmt, call.a, call.b)
     ELSE IF call.op \in {"mul_float", "mul_double"} THEN FMul(fmt, call.a, call.b)
     ELSE IF call.op \in {"div_float", "div_double"} THEN FDiv(fmt, call.a, call.b)
     ELSE fmaApprox(fmt, call.a, call.b, call.c)

\* max(exp(a), exp(b)) - exp(result) of a call, from the raw exponent fields
SizeOf(call) ==
  LET fmt == FmtOf(call.op)
  IN MaxInt(RawExp(fmt, call.a), RawExp(fmt, call.b)) - RawExp(fmt, PlainOf(call))

\* the call is the 64-bit addition of a and b
IsAddDouble(call, a, b) == call.op = "add_double" /\ call.a = a /\ call.b = b

\* C1: an addition or subtraction injects noise if and only if the larger raw
\* operand exponent minus the raw result exponent is at least the tolerance
\* of the context; a call that does not inject draws nothing and stores the
\* plain result.  1.0 + -(1 - 2^-52) has exponents (0, -1, -52): it injects
\* at tolerance 1 and not at tolerance 60; 2.0 + 3.0 is stored as 5.0.
C1_InjectsIffSizeAtLeastTolerance ==
  last.op \in AddSubOps =>
    /\ last.out.plain = PlainOf(last)
    /\ last.out.injected <=> (SizeOf(last) >= ctx.tolerance)
    /\ last.out.injected <=> (last.out.draw # NoDraw)
    /\ ~last.out.injected => last.out.Z = last.out.plain
    /\ IsAddDouble(last, One, Neg(AlmostOne64)) =>
         /\ RawExp(binary64, last.a) = 0
         /\ RawExp(binary64, last.b) = -1
         /\ RawExp(binary64, last.out.plain) = -52
         /\ (ctx.tolerance = 1 => last.out.injected)
         /\ (ctx.tolerance = 60 => ~last.out.injected)
    /\ IsAddDouble(last, Two, Three) =>
         (~last.out.injected /\ last.out.Z = Five)

\* C1, reached: 1.0 + -(1 - 2^-52) at tolerance 1 has injected noise
C1_Witness ==
  /\ IsAddDouble(last, One, Neg(AlmostOne64))
  /\ ctx.tolerance = 1
  /\ last.out.injected
  /\ last.out.draw # NoDraw

\* C2 as stated: at tolerance 0 every addition or subtraction whose result
\* exponent differs from the larger operand exponent is perturbed
C2_EveryExponentChangePerturbed ==
  (last.op \in AddSubOps /\ ctx.tolerance = 0 /\ SizeOf(last) # 0) =>
    last.out.injected

\* C2, amended: at tolerance 0 an addition or subtraction is perturbed if and
\* only if its result exponent is at most the larger operand exponent; a
\* result whose exponent grew is stored unperturbed
C2_PerturbedUnlessExponentGrows ==
  (last.op \in AddSubOps /\ ctx.tolerance = 0) =>
    /\ last.out.injected <=> (SizeOf(last) >= 0)
    /\ SizeOf(last) < 0 => (last.out.Z = PlainOf(last) /\ last.out.draw = NoDraw)

\* C2, reached: 2.0 + 3.0 at tolerance 0, whose exponent grows from 1 to 2,
\* is stored as 5.0 with no noise
C2_Witness ==
  /\ IsAddDouble(last, Two, Three)
  /\ ctx.tolerance = 0
  /\ SizeOf(last) = -1
  /\ ~last.out.injected
  /\ last.out.Z = Five

\* C3: a multiplication, a division or a fused multiply-add stores the plain
\* result of the operation and draws nothing: the live stream state, the
\* saved slot and the thread counter are what they were before the call
C3_PassThrough ==
  [][last'.op \in PassOps =>
       /\ last'.out.Z = PlainOf(last')
       /\ last'.out.draw = NoDraw
       /\ rng_state' = rng_state
       /\ __rng_state' = __rng_state
       /\ global_tid' = global_tid]_vars

\* C3, reached: 1.0 / 3.0 in 64 bits at tolerance 0, on a thread whose stream
\* is seeded and has been drawn from
C3_Witness ==
  /\ last.op = "div_double"
  /\ last.a = One
  /\ last.b = Three
  /\ ctx.tolerance = 0
  /\ rng_state[Slot(last.thread)].random_state_valid
  /\ rng_state[Slot(last.thread)].pos > 0
  /\ last.out.Z = FDiv(binary64, One, Three)

\* C8: when an addition or subtraction injects noise for a cancellation of
\* size c and a result of exponent e_z, the exponent handed to the noise
\* synthesis is e_z - (c - 1); for 1.0 + -(1 - 2^-52) at tolerance 1, c is
\* 52 and the noise exponent is the exponent of the result minus 51
C8_NoiseExponent ==
  (last.op \in AddSubOps /\ last.out.injected) =>
    /\ last.out.cancellation = SizeOf(last)
    /\ last.out.e_z = RawExp(FmtOf(last.op), PlainOf(last))
    /\ last.out.e_n = last.out.e_z - (last.out.cancellation - 1)
    /\ (IsAddDouble(last, One, Neg(AlmostOne64)) /\ ctx.tolerance = 1) =>
         /\ last.out.cancellation = 52
         /\ last.out.e_n = RawExp(binary64, PlainOf(last)) - 51

\* C8, reached: the injection of 1.0 + -(1 - 2^-52) at tolerance 1, with
\* noise exponent -103
C8_Witness ==
  /\ IsAddDouble(last, One, Neg(AlmostOne64))
  /\ ctx.tolerance = 1
  /\ last.out.injected
  /\ last.out.e_n = -103

\* (u - 0.5) * 2^e, exactly
Scaled(d, e) == Fin(d.s, Shift(d.b, e))

\* |x| < 2^e
Below(x, e) == x.k = "fin" /\ (x.b = {} \/ MaxOf(x.b) < e)

\* C9 as stated: every injected noise equals (u - 0.5) * 2^(e_n) and is less
\* than 2^(e_n + 1) in magnitude, for every e_n reached, a zero result and
\* the draw u = 0.5 included
C9_NoiseIsScaledDraw ==
  (last.op \in AddSubOps /\ last.out.injected) =>
    /\ last.out.d_rand = FSub(binary64, last.out.u, Half)
    /\ last.out.noise = Scaled(last.out.d_rand, last.out.e_n)
    /\ Below(last.out.noise, last.out.e_n + 1)

\* C9, reached: 1.0 - 1.0 at tolerance 1 is 0 with exponent field 0, so the
\* cancellation is 1023 and e_n is -2045; with the draw 0.75 the exponent
\* field 1021 of 0.25 becomes 1021 - 2045 mod 2^11 = 1024 and the noise 2.0
C9_Witness ==
  /\ last.op = "sub_double"
  /\ last.a = One
  /\ last.b = One
  /\ last.out.plain = Zero
  /\ last.out.e_n = -2045
  /\ last.out.d_rand = Fin(0, {-2})
  /\ last.out.noise = Fin(0, {1})
  /\ last.out.Z = Fin(0, {1})

(***************************************************************************)
(* SpecDet: two runs of the program side by side.  Both are given the same *)
(* calls with the same arguments, in the order of the host's lifecycle     *)
(* (the command line is parsed before init and before any arithmetic);     *)
(* each run reads its own entropy.  runB holds the second run.             *)
(***************************************************************************)
B_pre_init == runB' = [runB EXCEPT !.phase = "ready", !.ctx = init_context]

B_CLI(argv) ==
  runB' = [runB EXCEPT !.ctx = interflop_argp_parse(build.variant, argv, @)]

B_init ==
  runB' = [runB EXCEPT
             !.rng = _init_rng_state_struct(@, runB.ctx.choose_seed, runB.ctx.seed, FALSE)]

B_Arith(out) ==
  /\ out.rng.pos <= MaxDraws
  /\ out.tid <= MaxTid
  /\ runB' = [runB EXCEPT !.rng = out.rng, !.tid = out.tid, !.out = out]

DetArgv == {<<Option("s", seed, 0)>> : seed \in Seeds} \cup {<<Option("t", 0, 0)>>}
DetPairs == {<<One, Neg(AlmostOne64)>>, <<Two, Three>>}

NextDet ==
  \/ interflop_cancellation_pre_init /\ B_pre_init
  \/ \E argv \in DetArgv :
       /\ last.op \in {"pre_init", "CLI"}
       /\ interflop_cancellation_CLI(argv)
       /\ B_CLI(argv)
  \/ interflop_cancellation_init(1) /\ B_init
  \/ \E p \in DetPairs, entA \in EntropyOf(1), entB \in Entropy :
       /\ interflop_cancellation_add_double(1, p[1], p[2], entA)
       /\ B_Arith(add_double(p[1], p[2], runB.ctx, runB.rng, runB.tid, entB))
  \/ \E p \in DetPairs, entA \in EntropyOf(1), entB \in Entropy :
       /\ interflop_cancellation_sub_double(1, p[1], p[2], entA)
       /\ B_Arith(sub_double(p[1], p[2], runB.ctx, runB.rng, runB.tid, entB))
  \/ \E p \in FloatPairs, entA \in EntropyOf(1), entB \in Entropy :
       /\ interflop_cancellation_sub_float(1, p[1], p[2], entA)
       /\ B_Arith(sub_float(p[1], p[2], runB.ctx, runB.rng, runB.tid, entB))
  \/ \E p \in DetPairs :
       /\ interflop_cancellation_mul_double(1, p[1], p[2], 1)
       /\ B_Arith(mul_double(p[1], p[2], runB.ctx, runB.rng, runB.tid, 1))

SpecDet == Init /\ [][NextDet]_vars

\* C4: two single-threaded runs that choose the same seed before their
\* first operation and then make the same arithmetic calls store the same
\* result and add the same noise at every call, and leave the stream and the
\* thread counter in the same state
C4_SameSeedSameResults ==
  (ctx.choose_seed /\ runB.ctx.choose_seed /\ ctx.seed = runB.ctx.seed) =>
    /\ last.op \in (AddSubOps \cup PassOps) =>
         /\ last.out.Z = runB.out.Z
         /\ last.out.injected = runB.out.injected
         /\ last.out.noise = runB.out.noise
         /\ last.out.draw = runB.out.draw
    /\ rng_state[Slot(1)] = runB.rng
    /\ global_tid = runB.tid

\* C4, reached: both runs chose a seed and have just injected the second
\* noise of their streams, not zero and the same in both
C4_Witness ==
  /\ ctx.choose_seed
  /\ runB.ctx.choose_seed
  /\ last.op = "add_double"
  /\ last.out.injected
  /\ last.out.draw.pos = 1
  /\ last.out.noise # Zero
  /\ last.out.noise = runB.out.noise
  /\ last.out.Z = runB.out.Z

(***************************************************************************)
(* SpecConc: the threads of one process call the additions and push_seed   *)
(* and pop_seed in any interleaving of whole calls.                        *)
(***************************************************************************)
ConcArgv == {<<Option("s", 1, 0)>>}

NextConc ==
  \/ interflop_cancellation_pre_init /\ UNCHANGED runB
  \/ \E argv \in ConcArgv :
       /\ last.op \in {"pre_init", "CLI"}
       /\ interflop_cancellation_CLI(argv)
       /\ UNCHANGED runB
  \/ interflop_cancellation_init(1) /\ UNCHANGED runB
  \/ \E t \in Threads : \E ent \in EntropyOf(t) :
       interflop_cancellation_add_double(t, One, Neg(AlmostOne64), ent)
         /\ UNCHANGED runB
  \/ \E t \in Threads : cancellation_push_seed(t, t) /\ UNCHANGED runB
  \/ \E t \in Threads : cancellation_pop_seed(t) /\ UNCHANGED runB

SpecConc == Init /\ [][NextConc]_vars

RngOps == {"push_seed", "pop_seed"}

\* C5 as stated: a call of an addition, a subtraction, push_seed or pop_seed
\* by one thread leaves the live stream state and the saved slot of every
\* other thread as they were
C5_ThreadIsolation ==
  [][\A t \in Threads :
       (last'.thread = t /\ last'.op \in (AddSubOps \cup RngOps)) =>
         \A u \in Threads \ {t} :
           /\ rng_state'[Slot(u)] = rng_state[Slot(u)]
           /\ __rng_state'[Slot(u)] = __rng_state[Slot(u)]]_vars

\* C5, reached: built without RNG_THREAD_SAFE, the live stream state of
\* thread 1 is the one the first draw of thread 2 has just seeded and advanced
C5_Witness ==
  /\ ~build.RNG_THREAD_SAFE
  /\ last.thread = 2
  /\ last.op = "add_double"
  /\ last.out.injected
  /\ last.out.draw.pos = 0
  /\ rng_state[Slot(1)] = last.out.rng

(***************************************************************************)
(* SpecSeq: one thread seeds, draws from, pushes and pops its stream.      *)
(***************************************************************************)
SeqArgv == {<<Option("s", seed, 0)>> : seed \in Seeds}

NextSeq ==
  \/ interflop_cancellation_pre_init /\ UNCHANGED runB
  \/ \E argv \in SeqArgv : interflop_cancellation_CLI(argv) /\ UNCHANGED runB
  \/ interflop_cancellation_init(1) /\ UNCHANGED runB
  \/ \E seed \in Seeds : cancellation_push_seed(1, seed) /\ UNCHANGED runB
  \/ cancellation_pop_seed(1) /\ UNCHANGED runB
  \/ \E ent \in EntropyOf(1) :
       interflop_cancellation_add_double(1, One, Neg(AlmostOne64), ent)
         /\ UNCHANGED runB

SpecSeq == Init /\ [][NextSeq]_vars

\* C6 as stated: after push_seed(S), any number of draws and pop_seed(), with
\* the context as it was at the push, the next draw of the live stream is
\* the draw that was next when push_seed was called, whether or not the
\* stream was seeded then
C6_PushPopRoundTrip ==
  (last.op = "pop_seed" /\ pushed[1].popped /\ ctx = pushed[1].ctx) =>
    NextDraw(rng_state[Slot(1)], ctx, global_tid) = pushed[1].expect

\* C6, reached: with the seed 1 chosen and a stream not seeded at the push,
\* one draw between push_seed and pop_seed seeds the stream with the thread
\* counter 1; after the pop the stream is unseeded again and its next draw
\* seeds it with the thread counter 2
C6_Witness ==
  /\ last.op = "pop_seed"
  /\ pushed[1].popped
  /\ pushed[1].draws = 1
  /\ ctx = pushed[1].ctx
  /\ pushed[1].expect = [stream |-> FixedStream(1, 1), pos |-> 0]
  /\ NextDraw(rng_state[Slot(1)], ctx, global_tid) =
       [stream |-> FixedStream(1, 2), pos |-> 0]

\* C7 as stated: the draws that follow push_seed(S) are, in order, those of
\* a fresh stream seeded with S, whatever the thread drew before and
\* whatever the seed and choose_seed of the context
C7_PushReseeds ==
  (pushed[1].active /\ last.op \in AddSubOps /\ last.out.injected) =>
    /\ last.out.draw.stream.kind = "fixed"
    /\ last.out.draw.stream.seed = pushed[1].seed
    /\ last.out.draw.pos = pushed[1].draws - 1

\* C7, reached: after push_seed(2) under a context whose seed is 1, the
\* first draw comes from the stream seeded with 1
C7_Witness ==
  /\ pushed[1].active
  /\ pushed[1].seed = 2
  /\ pushed[1].draws = 1
  /\ last.op = "add_double"
  /\ last.out.injected
  /\ last.out.draw = [stream |-> FixedStream(1, 1), pos |-> 0]

\* C14: the saved slot holds one snapshot.  Every push_seed puts the state
\* that is live at the call into the slot, whatever the slot held, and every
\* pop_seed makes the content of the slot the live state and leaves the slot
\* as it is: a pop after two pushes restores the state that was live just
\* before the second push, and so does every pop after it
C14_SingleSnapshot ==
  [][/\ last'.op = "push_seed" =>
          __rng_state'[Slot(last'.thread)] = rng_state[Slot(last'.thread)]
     /\ last'.op = "pop_seed" =>
          /\ rng_state'[Slot(last'.thread)] = __rng_state[Slot(last'.thread)]
          /\ __rng_state' = __rng_state]_vars

\* C14, reached: with no seed chosen in the context and nothing drawn,
\* push_seed(1), push_seed(2) and pop_seed() were called; the live state is
\* the one push_seed(1) left (seed 1 recorded, not seeded), which the second
\* push saved, and not the untouched state the first push had saved
C14_Witness ==
  /\ last.op = "pop_seed"
  /\ pushed[1].popped
  /\ pushed[1].seed = 2
  /\ ~ctx.choose_seed
  /\ rng_state[Slot(1)] = [ZeroRng EXCEPT !.choose_seed = TRUE, !.seed = 1]
  /\ __rng_state[Slot(1)] = rng_state[Slot(1)]

(***************************************************************************)
(* SpecCfg: the configuration entry points.                                *)
(***************************************************************************)
\* the options of a command line: valid ones, a negative tolerance, a
\* tolerance and a seed whose conversion reports an error
CfgOptions ==
  {Option("t", 2, 0), Option("t", -1, 0), Option("t", 0, 1), Option("w", 0, 0),
   Option("s", 0, 1)} \cup {Option("s", seed, 0) : seed \in Seeds}
CfgArgv == {<<o>> : o \in CfgOptions} \cup {<<o, q>> : o, q \in CfgOptions}
Confs == [tolerance : {0, -1}, warning : BOOLEAN, seed : Seeds]

NextCfg ==
  \/ interflop_cancellation_pre_init /\ UNCHANGED runB
  \/ \E argv \in CfgArgv : interflop_cancellation_CLI(argv) /\ UNCHANGED runB
  \/ \E conf \in Confs : interflop_cancellation_configure(conf) /\ UNCHANGED runB

SpecCfg == Init /\ [][NextCfg]_vars

\* an option the parser must reject
InvalidOption(opt) ==
  \/ opt.key = "t" /\ (opt.error # 0 \/ opt.val < 0)
  \/ opt.key = "s" /\ opt.error # 0

\* every option of argv with this key is invalid
OnlyInvalid(argv, key) ==
  \A i \in 1 .. Len(argv) : argv[i].key = key => InvalidOption(argv[i])

\* C10 as stated: parsing a command line goes on after an invalid value and
\* leaves the field alone: the tolerance is what it was when every
\* --tolerance given is invalid, and the seed and choose_seed are what they
\* were when every --seed given is invalid
C10_InvalidOptionKeepsField ==
  [][last'.op = "CLI" =>
       /\ phase' = "ready"
       /\ OnlyInvalid(last'.argv, "t") => ctx'.tolerance = ctx.tolerance
       /\ OnlyInvalid(last'.argv, "s") =>
            (ctx'.seed = ctx.seed /\ ctx'.choose_seed = ctx.choose_seed)]_vars

\* C10, reached: a command line whose only option is a --seed that does not
\* convert has been parsed with one error reported, and the context has
\* choose_seed set and the seed 0 the failed conversion returned
C10_Witness ==
  /\ last.op = "CLI"
  /\ last.argv = <<Option("s", 0, 1)>>
  /\ last.errors = 1
  /\ ctx.choose_seed
  /\ ctx.seed = 0

\* C11 as stated: after pre_init the tolerance of the context is never
\* negative, whatever options were parsed and whatever conf configure was
\* given
C11_ToleranceNonNegative == phase = "ready" => ctx.tolerance >= 0

\* C11, reached: configure was called with tolerance -1 and the context now
\* holds the tolerance -1
C11_Witness ==
  /\ last.op = "configure"
  /\ last.argv[1].tolerance = -1
  /\ ctx.tolerance = -1

(***************************************************************************)
(* pre_init and the services of the host.  The host supplies the panic     *)
(* handler and the services _cancellation_check_stdlib looks for; a        *)
(* handler may end the process or return to its caller.                    *)
(***************************************************************************)
Services ==
  {"malloc", "exit", "fopen", "fprintf", "getenv", "gettid", "sprintf",
   "strcasecmp", "strerror", "vfprintf", "vwarnx"}

Host(missing, panic_returns) == [missing |-> missing, panic_returns |-> panic_returns]

\* the calls of interflop_panic made by the CHECK_IMPL lines: one per missing
\* service while the handler returns, and only the first when it does not
_cancellation_check_stdlib(host) ==
  IF host.panic_returns THEN Cardinality(host.missing)
  ELSE IF host.missing = {} THEN 0 ELSE 1

\* pre_init on a host: nothing follows a panic handler that does not return;
\* otherwise the logger is set up and the context is allocated through
\* interflop_malloc, a call through a null pointer when malloc is missing.
\* logger_done tells whether logger_init came back on this host.
pre_init_on_host(host, logger_done) ==
  LET panics == _cancellation_check_stdlib(host)
      exited == panics > 0 /\ ~host.panic_returns
      crashed == ~logger_done \/ "malloc" \in host.missing
      after == IF exited THEN "exited" ELSE IF crashed THEN "crashed" ELSE "ready"
  IN /\ phase = "boot"
     /\ host.missing = {} => logger_done
     /\ phase' = after
     /\ ctx' = IF after = "ready" THEN init_context ELSE ctx
     /\ last' = Config("pre_init", IF host.missing = {} THEN << >> ELSE <<host>>, panics)
     /\ UNCHANGED <<build, rng_state, __rng_state, global_tid, pushed>>

Hosts ==
  {Host(missing, r) : missing \in {{}} \cup {{s} : s \in Services} \cup {{"malloc", "vwarnx"}},
                      r \in BOOLEAN}

NextHost ==
  \/ \E host \in Hosts, logger_done \in BOOLEAN :
       pre_init_on_host(host, logger_done) /\ UNCHANGED runB
  \/ \E argv \in CfgArgv : interflop_cancellation_CLI(argv) /\ UNCHANGED runB
  \/ interflop_cancellation_init(1) /\ UNCHANGED runB

SpecHost == Init /\ [][NextHost]_vars

\* C12 as stated: when a required service is missing, pre_init reports it
\* through the panic handler and neither allocates nor hands out a context;
\* when none is missing, the context handed out has tolerance 1, warning
\* false, choose_seed false and seed 0
C12_MissingServiceIsFatal ==
  last.op = "pre_init" =>
    IF last.argv = << >>
    THEN /\ phase = "ready"
         /\ ctx = [tolerance |-> 1, warning |-> FALSE, choose_seed |-> FALSE, seed |-> 0]
    ELSE /\ last.errors >= 1
         /\ phase # "ready"
         /\ ctx = NoContext

\* C12, reached: vwarnx was missing, the panic handler was called once and
\* returned, and pre_init went on to hand out a context with the defaults
C12_Witness ==
  /\ last.op = "pre_init"
  /\ last.argv = <<Host({"vwarnx"}, TRUE)>>
  /\ last.errors = 1
  /\ phase = "ready"
  /\ ctx = init_context

(***************************************************************************)
(* Lazy seeding: the context is reconfigured at any time, thread 1 may     *)
(* call init, and every thread adds.                                       *)
(***************************************************************************)
LazyArgv == {<<Option("s", 1, 0)>>}
LazyConfs == [tolerance : {1}, warning : {FALSE}, seed : {2}]

NextLazy ==
  \/ interflop_cancellation_pre_init /\ UNCHANGED runB
  \/ \E argv \in LazyArgv : interflop_cancellation_CLI(argv) /\ UNCHANGED runB
  \/ \E conf \in LazyConfs : interflop_cancellation_configure(conf) /\ UNCHANGED runB
  \/ interflop_cancellation_init(1) /\ UNCHANGED runB
  \/ \E t \in Threads : \E ent \in EntropyOf(t) :
       interflop_cancellation_add_double(t, One, Neg(AlmostOne64), ent) /\ UNCHANGED runB

SpecLazy == Init /\ [][NextLazy]_vars

\* C13: an injected add/sub on a stream that is not seeded seeds it from the
\* choose_seed and seed the context holds at that call (a fixed stream of
\* the context's seed, or an entropy stream) and draws its first value; on a
\* seeded stream it draws the next value of the same stream and changes
\* nothing else of the stream state, whatever the context holds by then;
\* init leaves a seeded stream alone
C13_LazySeeding ==
  [][/\ (last'.op \in AddSubOps /\ last'.out.injected) =>
          LET s == Slot(last'.thread)
              st == rng_state[s]
              draw == last'.out.draw
          IN IF st.random_state_valid
             THEN /\ rng_state'[s] = [st EXCEPT !.pos = @ + 1]
                  /\ draw = [stream |-> st.stream, pos |-> st.pos]
                  /\ global_tid' = global_tid
             ELSE /\ rng_state'[s].random_state_valid
                  /\ rng_state'[s].choose_seed = ctx.choose_seed
                  /\ rng_state'[s].seed = ctx.seed
                  /\ rng_state'[s].stream = draw.stream
                  /\ rng_state'[s].pos = 1
                  /\ draw.pos = 0
                  /\ draw.stream.kind = IF ctx.choose_seed THEN "fixed" ELSE "entropy"
                  /\ ctx.choose_seed => draw.stream.seed = ctx.seed
     /\ (last'.op = "init" /\ rng_state[Slot(last'.thread)].random_state_valid) =>
          rng_state' = rng_state]_vars

\* C13, reached: the stream was seeded with the seed 1 at its first draw, the
\* context was then given the seed 2, and the next injected addition drew
\* position 1 of the stream seeded with 1
C13_Witness ==
  /\ last.op = "add_double"
  /\ last.out.injected
  /\ ctx.choose_seed
  /\ ctx.seed = 2
  /\ last.out.draw = [stream |-> FixedStream(1, 1), pos |-> 1]

(***************************************************************************)
(* The frame of an addition or subtraction: calls with and without a       *)
(* detected cancellation, on streams seeded or not, with a saved slot in   *)
(* use.                                                                    *)
(***************************************************************************)
FrameArgv == {<<Option("s", 1, 0)>>, <<Option("t", 60, 0)>>}
FramePairs == {<<One, Neg(AlmostOne64)>>, <<Two, Three>>}

NextFrame ==
  \/ interflop_cancellation_pre_init /\ UNCHANGED runB
  \/ \E argv \in FrameArgv : interflop_cancellation_CLI(argv) /\ UNCHANGED runB
  \/ interflop_cancellation_init(1) /\ UNCHANGED runB
  \/ cancellation_push_seed(1, 2) /\ UNCHANGED runB
  \/ cancellation_pop_seed(1) /\ UNCHANGED runB
  \/ \E p \in FramePairs : \E ent \in EntropyOf(1) :
       interflop_cancellation_add_double(1, p[1], p[2], ent) /\ UNCHANGED runB
  \/ \E ent \in EntropyOf(1) :
       interflop_cancellation_sub_float(1, One, Neg(AlmostOne32), ent) /\ UNCHANGED runB

SpecFrame == Init /\ [][NextFrame]_vars

\* C15: an addition or subtraction whose cancellation size is at least the
\* tolerance advances the stream of the calling thread by exactly one draw
\* (the first one of a stream it seeds, the next one of a seeded stream);
\* one whose size is below the tolerance leaves the live stream state, the
\* saved slot and the thread counter as they were and stores the plain
\* result; neither changes the context, the saved slots or another slot
C15_AddSubFrame ==
  [][last'.op \in AddSubOps =>
       LET s == Slot(last'.thread)
           st == rng_state[s]
           out == last'.out
       IN /\ ctx' = ctx
          /\ __rng_state' = __rng_state
          /\ \A x \in Slots \ {s} : rng_state'[x] = rng_state[x]
          /\ IF SizeOf(last') >= ctx.tolerance
             THEN /\ out.injected
                  /\ rng_state'[s].random_state_valid
                  /\ rng_state'[s].pos = (IF st.random_state_valid THEN st.pos ELSE 0) + 1
                  /\ st.random_state_valid => rng_state'[s].stream = st.stream
                  /\ out.draw = [stream |-> rng_state'[s].stream,
                                 pos |-> rng_state'[s].pos - 1]
             ELSE /\ ~out.injected
                  /\ rng_state' = rng_state
                  /\ global_tid' = global_tid
                  /\ out.Z = PlainOf(last')]_vars

\* C15, reached: with the seed 1 chosen and the tolerance 1, 2.0 + 3.0 was
\* stored as 5.0 by a thread whose stream is still not seeded and has no
\* seed recorded
C15_Witness ==
  /\ IsAddDouble(last, Two, Three)
  /\ ctx.choose_seed
  /\ ctx.tolerance = 1
  /\ ~last.out.injected
  /\ last.out.Z = Fin(0, {0, 2})
  /\ rng_state[Slot(last.thread)] = ZeroRng

(***************************************************************************)
(* choose_seed over the life of the backend: every entry point, with the   *)
(* command line and configure setting and not setting a seed.              *)
(***************************************************************************)
MonoArgv == {<<Option("s", 1, 0)>>, <<Option("s", 0, 1)>>, <<Option("t", 1, 0)>>}
MonoConfs == [tolerance : {1}, warning : {FALSE}, seed : {1}, choose_seed : BOOLEAN]

NextMono ==
  \/ interflop_cancellation_pre_init /\ UNCHANGED runB
  \/ \E argv \in MonoArgv : interflop_cancellation_CLI(argv) /\ UNCHANGED runB
  \/ \E conf \in MonoConfs : interflop_cancellation_configure(conf) /\ UNCHANGED runB
  \/ interflop_cancellation_init(1) /\ UNCHANGED runB
  \/ cancellation_push_seed(1, 2) /\ UNCHANGED runB
  \/ cancellation_pop_seed(1) /\ UNCHANGED runB
  \/ \E ent \in EntropyOf(1) :
       interflop_cancellation_add_double(1, One, Neg(AlmostOne64), ent) /\ UNCHANGED runB
  \/ interflop_cancellation_mul_double(1, Three, Neg(Five), 1) /\ UNCHANGED runB

SpecMono == Init /\ [][NextMono]_vars

\* C16: choose_seed is false after pre_init; every configure and every
\* command line with a --seed option leaves it true, whatever choose_seed
\* the conf holds; and no entry point makes it false once it is true
C16_ChooseSeedMonotone ==
  [][/\ last'.op = "pre_init" => ~ctx'.choose_seed
     /\ last'.op = "configure" => ctx'.choose_seed
     /\ (last'.op = "CLI" /\ \E i \in 1 .. Len(last'.argv) : last'.argv[i].key = "s")
          => ctx'.choose_seed
     /\ ctx.choose_seed => ctx'.choose_seed]_vars

\* C16, reached: configure was called with a conf whose choose_seed is false
\* and the context has choose_seed true and the seed of the conf
C16_Witness ==
  /\ last.op = "configure"
  /\ ~last.argv[1].choose_seed
  /\ ctx.choose_seed
  /\ ctx.seed = 1

====
